---- MODULE Spec2Model ----
(***************************************************************************)
(* Road intersection simulation (src/road_intersection/src/main.rs).       *)
(*                                                                         *)
(* State: the vehicle collection and the LightController owned by main's   *)
(* loop, and the wall clock the controller reads.  One action per handled  *)
(* key event (PollEvent) and one per frame of the loop (Frame: controller  *)
(* update, per-vehicle motion loop, cull, present).  LightController is    *)
(* also driven on its own (SpecCtl) with arbitrary vehicle lists.          *)
(*                                                                         *)
(* Representation.  A Rect is its (x, y); every vehicle is 25 x 25.  An    *)
(* f32 is held in tenths (2.5 -> 25, 20.0 -> 200) and `as i32` truncates   *)
(* toward zero.  An Instant is the clock reading, in seconds, at which it  *)
(* was taken; elapsed() is the clock minus that reading.  Leaving the      *)
(* loop (Quit / Escape) is a behaviour that stutters from then on.         *)
(***************************************************************************)
EXTENDS Integers, Sequences, FiniteSets, TLC

VARIABLES
    vehicles,          \* main: Vec<Vehicle>
    light_controller,  \* main: LightController
    clock,             \* the wall clock read by Instant::now() / elapsed()
    frame,             \* frames completed since the first accepted spawn (saturating)
    spawned,           \* number of accepted spawns so far
    pre,               \* history: the collection when the last motion loop started
    moved,             \* history: the collection after that loop, before the cull
    checks,            \* history: per vehicle, the locals is_stopped_by_car / is_at_red_light
    kept,              \* history: the collection right after the last cull
    upd,               \* history: what the last LightController::update read and decided
    req                \* history: the last key event handled since the last frame

vars == <<vehicles, light_controller, clock, frame, spawned, pre, moved, checks, kept, upd,
          req>>

----------------------------------------------------------------------------
\* Simulation constants (main.rs lines 9-17, 78)

WINDOW_WIDTH == 800
WINDOW_HEIGHT == 800
ROAD_WIDTH == 150
LANE_WIDTH == ROAD_WIDTH \div 2
VEHICLE_WIDTH == 25
VEHICLE_HEIGHT == 25
\* f32 2.5, in tenths
VEHICLE_SPEED == 25
\* f32 20.0, in tenths
SAFETY_GAP == 200
\* Duration::from_secs(8)
base_duration == 8

----------------------------------------------------------------------------
\* Bounds of the model

\* the clock is observed in steps of ClockStep seconds: at a point where time
\* passes it reads the same as before or ClockStep more
ClockStep == 4
\* the clock stops advancing here in the simulation loop (two phase changes fit)
MaxClock == 16
\* the clock stops advancing here when the controller is driven on its own
CtlMaxClock == 16
\* accepted spawns in one run
MaxSpawns == 2
\* frames after the first spawn during which key events still arrive
KeyFrames == 26
\* length of the vehicle lists handed to the controller driven on its own
MaxCtlVehicles == 2
\* frames after the first spawn during which a key for the opposite approach
\* of the same road still arrives
RoadFrames == 2
\* last clock reading of a run with traffic from both ends of one road
RoadMaxClock == 8
\* longest time since the last phase change that an unending run lets pass
MaxAge == 12
\* number of vehicles spawned in an unending run
LiveSpawns == 1

----------------------------------------------------------------------------
\* Types

Origins == {"North", "South", "East", "West"}

Keycodes == {"Up", "Down", "Left", "Right", "R", "Other"}

\* `value as i32` for an f32 held in tenths: truncation toward zero
F32AsI32(t) ==
    IF t >= 0 THEN t \div 10 ELSE -((-t) \div 10)

\* Rect::right / Rect::bottom
right(v) == v.x + VEHICLE_WIDTH

bottom(v) == v.y + VEHICLE_HEIGHT

----------------------------------------------------------------------------
\* spawn_vehicle

spawn_vehicle(origin) ==
    LET p == CASE origin = "North" ->
                    <<WINDOW_WIDTH \div 2 - VEHICLE_WIDTH - 10, 0, 0, VEHICLE_SPEED>>
               [] origin = "South" ->
                    <<WINDOW_WIDTH \div 2 - VEHICLE_WIDTH - 10,
                      WINDOW_HEIGHT - VEHICLE_HEIGHT, 0, -VEHICLE_SPEED>>
               [] origin = "East" ->
                    <<0, WINDOW_HEIGHT \div 2 - VEHICLE_HEIGHT - 10, VEHICLE_SPEED, 0>>
               [] origin = "West" ->
                    <<WINDOW_WIDTH - VEHICLE_WIDTH, WINDOW_HEIGHT \div 2 + 10,
                      -VEHICLE_SPEED, 0>>
    IN  [x |-> p[1], y |-> p[2], vx |-> p[3], vy |-> p[4], origin |-> origin,
         is_stopped |-> FALSE, is_outbound |-> FALSE]

----------------------------------------------------------------------------
\* LightController

LightController_new(now) ==
    [n_light |-> "Green", e_light |-> "Red", s_light |-> "Green", w_light |-> "Red",
     phase |-> "NorthSouth", phase_timer |-> now]

lane_capacity == (LANE_WIDTH * 10) \div (VEHICLE_HEIGHT * 10 + SAFETY_GAP)

\* current_green_origins with the two arms exchanged
current_green_origins_swapped(phase) ==
    IF phase = "NorthSouth" THEN {"East", "West"} ELSE {"North", "South"}

current_green_origins(phase) ==
    IF phase = "NorthSouth" THEN {"North", "South"} ELSE {"East", "West"}

\* queue_size counting every vehicle of the origin, stopped or not
queue_size_any(vs, origin) ==
    Cardinality({i \in DOMAIN vs : vs[i].origin = origin})

queue_size(vs, origin) ==
    Cardinality({i \in DOMAIN vs : vs[i].origin = origin /\ vs[i].is_stopped})

\* is_congested comparing with the whole lane capacity instead of half of it
is_congested_whole(vs, origin) == queue_size(vs, origin) > lane_capacity

\* the test that counts a green origin as a congested lane
is_congested(vs, origin) == queue_size(vs, origin) > lane_capacity \div 2

congested_lanes(self, vs) ==
    Cardinality({o \in current_green_origins(self.phase) : is_congested(vs, o)})

\* first half of update: the decision to extend, reading the clock at `now1`
extend_green(self, vs, now1) ==
    IF now1 - self.phase_timer >= base_duration
    THEN congested_lanes(self, vs) > 0
    ELSE FALSE

\* flip whose EastWest arm leaves the East light Green
flip_east_stays_green(self, now) ==
    IF self.phase = "NorthSouth"
    THEN [self EXCEPT !.phase_timer = now, !.phase = "EastWest",
                      !.n_light = "Red", !.s_light = "Red",
                      !.e_light = "Green", !.w_light = "Green"]
    ELSE [self EXCEPT !.phase_timer = now, !.phase = "NorthSouth",
                      !.w_light = "Red",
                      !.n_light = "Green", !.s_light = "Green"]

\* flip whose EastWest arm does not set the East and West lights
flip_east_west_left_red(self, now) ==
    IF self.phase = "NorthSouth"
    THEN [self EXCEPT !.phase_timer = now, !.phase = "EastWest",
                      !.n_light = "Red", !.s_light = "Red"]
    ELSE [self EXCEPT !.phase_timer = now, !.phase = "NorthSouth",
                      !.e_light = "Red", !.w_light = "Red",
                      !.n_light = "Green", !.s_light = "Green"]

\* the phase change of update, with Instant::now() = `now`
flip(self, now) ==
    IF self.phase = "NorthSouth"
    THEN [self EXCEPT !.phase_timer = now, !.phase = "EastWest",
                      !.n_light = "Red", !.s_light = "Red",
                      !.e_light = "Green", !.w_light = "Green"]
    ELSE [self EXCEPT !.phase_timer = now, !.phase = "NorthSouth",
                      !.e_light = "Red", !.w_light = "Red",
                      !.n_light = "Green", !.s_light = "Green"]

\* update comparing the elapsed time with > instead of >=
update_strict(self, vs, now1, now2) ==
    IF now2 - self.phase_timer > base_duration /\ ~extend_green(self, vs, now1)
    THEN flip(self, now2)
    ELSE self

\* update changing the phase without the second elapsed() test
update_untimed(self, vs, now1, now2) ==
    IF ~extend_green(self, vs, now1)
    THEN flip(self, now2)
    ELSE self

\* LightController::update; the clock reads now1 at the first elapsed() and
\* now2 at the second elapsed() and at Instant::now()
update(self, vs, now1, now2) ==
    IF now2 - self.phase_timer >= base_duration /\ ~extend_green(self, vs, now1)
    THEN flip(self, now2)
    ELSE self

\* get_light_state_for answering East with the North light
get_light_state_for_crossed(self, origin) ==
    CASE origin = "North" -> self.n_light
      [] origin = "South" -> self.s_light
      [] origin = "East" -> self.n_light
      [] origin = "West" -> self.w_light

get_light_state_for(self, origin) ==
    CASE origin = "North" -> self.n_light
      [] origin = "South" -> self.s_light
      [] origin = "East" -> self.e_light
      [] origin = "West" -> self.w_light

----------------------------------------------------------------------------
\* Key events

\* the origin a key asks for; r is the draw of rng.gen_range(0..4) for R
key_origin(k, r) ==
    CASE k = "Up" -> "South"
      [] k = "Down" -> "North"
      [] k = "Left" -> "East"
      [] k = "Right" -> "West"
      [] k = "R" -> (CASE r = 0 -> "North" [] r = 1 -> "South"
                       [] r = 2 -> "East" [] OTHER -> "West")
      [] OTHER -> "None"

\* the distance of v from the spawn edge of origin o
spawn_dist(v, o) ==
    CASE o = "North" -> v.y
      [] o = "South" -> WINDOW_HEIGHT - bottom(v)
      [] o = "East" -> v.x
      [] o = "West" -> WINDOW_WIDTH - right(v)

can_spawn_gap_only(vs, o) ==
    ~ \E i \in DOMAIN vs :
        /\ vs[i].origin = o
        /\ spawn_dist(vs[i], o) < F32AsI32(SAFETY_GAP)

can_spawn(vs, o) ==
    ~ \E i \in DOMAIN vs :
        /\ vs[i].origin = o
        /\ spawn_dist(vs[i], o) < VEHICLE_HEIGHT + F32AsI32(SAFETY_GAP)

----------------------------------------------------------------------------
\* Per-vehicle motion

intersection_center_x == WINDOW_WIDTH \div 2

intersection_center_y == WINDOW_HEIGHT \div 2

\* "Check if vehicle has passed the intersection"
outbound_transition_no_height(v) ==
    IF v.is_outbound THEN v
    ELSE CASE v.origin = "North" ->
                IF v.y > intersection_center_y
                THEN [v EXCEPT !.is_outbound = TRUE, !.x = intersection_center_x + 10]
                ELSE v
           [] v.origin = "South" ->
                IF bottom(v) < intersection_center_y
                THEN [v EXCEPT !.is_outbound = TRUE, !.x = intersection_center_x + 10]
                ELSE v
           [] v.origin = "East" ->
                IF right(v) > intersection_center_x
                THEN [v EXCEPT !.is_outbound = TRUE, !.y = intersection_center_y + 10]
                ELSE v
           [] v.origin = "West" ->
                IF v.x < intersection_center_x
                THEN [v EXCEPT !.is_outbound = TRUE, !.y = intersection_center_y - 10]
                ELSE v

outbound_transition(v) ==
    IF v.is_outbound THEN v
    ELSE CASE v.origin = "North" ->
                IF v.y > intersection_center_y
                THEN [v EXCEPT !.is_outbound = TRUE, !.x = intersection_center_x + 10]
                ELSE v
           [] v.origin = "South" ->
                IF bottom(v) < intersection_center_y
                THEN [v EXCEPT !.is_outbound = TRUE, !.x = intersection_center_x + 10]
                ELSE v
           [] v.origin = "East" ->
                IF right(v) > intersection_center_x
                THEN [v EXCEPT !.is_outbound = TRUE, !.y = intersection_center_y + 10]
                ELSE v
           [] v.origin = "West" ->
                IF v.x < intersection_center_x
                THEN [v EXCEPT !.is_outbound = TRUE, !.y = intersection_center_y - 25 - 10]
                ELSE v

\* the signed gap from cur to other along cur's travel axis
dist(cur, other) ==
    CASE cur.origin = "North" -> other.y - cur.y
      [] cur.origin = "South" -> cur.y - other.y
      [] cur.origin = "East" -> other.x - cur.x
      [] cur.origin = "West" -> cur.x - other.x

\* is_stopped_by_car without the `dist > 0` test: a vehicle behind blocks too
is_stopped_by_car_either_side(vs, i) ==
    \E j \in DOMAIN vs :
        /\ j # i
        /\ vs[j].origin = vs[i].origin
        /\ vs[j].is_outbound = vs[i].is_outbound
        /\ dist(vs[i], vs[j]) # 0
        /\ dist(vs[i], vs[j]) * 10 < VEHICLE_HEIGHT * 10 + SAFETY_GAP
        /\ dist(vs[j], vs[i]) * 10 < VEHICLE_HEIGHT * 10 + SAFETY_GAP

\* "Vehicle-Vehicle collision avoidance" for vehicle i: current_vehicle_* are
\* vs[i] as it entered the iteration; other_vehicles are read from vs as it
\* is when iteration i starts
is_stopped_by_car(vs, i) ==
    \E j \in DOMAIN vs :
        /\ j # i
        /\ vs[j].origin = vs[i].origin
        /\ vs[j].is_outbound = vs[i].is_outbound
        /\ dist(vs[i], vs[j]) > 0
        /\ dist(vs[i], vs[j]) * 10 < VEHICLE_HEIGHT * 10 + SAFETY_GAP

stop_line == WINDOW_HEIGHT \div 2 - ROAD_WIDTH \div 2

\* "Vehicle-Light interaction"
is_at_red_light(self, cur) ==
    LET light_state == get_light_state_for(self, cur.origin)
    IN  CASE cur.origin = "South" ->
                light_state = "Red" /\ bottom(cur) > stop_line
                                    /\ cur.y < stop_line + ROAD_WIDTH
          [] cur.origin = "North" ->
                light_state = "Red" /\ cur.y < stop_line
                                    /\ bottom(cur) > stop_line - ROAD_WIDTH
          [] cur.origin = "West" ->
                light_state = "Red" /\ right(cur) > stop_line
                                    /\ cur.x < stop_line + ROAD_WIDTH
          [] cur.origin = "East" ->
                light_state = "Red" /\ cur.x < stop_line
                                    /\ right(cur) > stop_line - ROAD_WIDTH

\* the resolution at the end of the loop body, for the vehicle v after its
\* outbound check
resolve(v, stop) ==
    IF stop
    THEN [v EXCEPT !.is_stopped = TRUE]
    ELSE [v EXCEPT !.is_stopped = FALSE,
                   !.x = v.x + F32AsI32(v.vx),
                   !.y = v.y + F32AsI32(v.vy)]

\* one iteration of `for i in 0..vehicles.len()`
update_vehicle(self, vs, i) ==
    resolve(outbound_transition(vs[i]),
            is_stopped_by_car(vs, i) \/ is_at_red_light(self, vs[i]))

\* the whole loop from iteration i on; also collects the two locals
RECURSIVE motion_loop(_, _, _, _)
motion_loop(self, vs, cs, i) ==
    IF i > Len(vs)
    THEN [vehicles |-> vs, checks |-> cs]
    ELSE motion_loop(self,
                     [vs EXCEPT ![i] = update_vehicle(self, vs, i)],
                     Append(cs, [is_stopped_by_car |-> is_stopped_by_car(vs, i),
                                 is_at_red_light |-> is_at_red_light(self, vs[i])]),
                     i + 1)

\* in_bounds with <= for the bottom edge of the window
in_bounds_inclusive(v) ==
    /\ right(v) > 0
    /\ v.x < WINDOW_WIDTH
    /\ bottom(v) > 0
    /\ v.y <= WINDOW_HEIGHT

\* the predicate of vehicles.retain
in_bounds(v) ==
    /\ right(v) > 0
    /\ v.x < WINDOW_WIDTH
    /\ bottom(v) > 0
    /\ v.y < WINDOW_HEIGHT

retain(vs) == SelectSeq(vs, in_bounds)

----------------------------------------------------------------------------
\* Initial state: main before the loop

NoUpdate ==
    [called |-> FALSE, now1 |-> 0, now2 |-> 0, before |-> LightController_new(0),
     vehicles |-> <<>>, extend |-> FALSE, prev_extend |-> FALSE]

NoRequest == [made |-> FALSE, origin |-> "None", before |-> <<>>, accepted |-> FALSE]

Init ==
    /\ vehicles = <<>>
    /\ light_controller = LightController_new(0)
    /\ clock = 0
    /\ frame = 0
    /\ spawned = 0
    /\ pre = <<>>
    /\ moved = <<>>
    /\ checks = <<>>
    /\ kept = <<>>
    /\ upd = NoUpdate
    /\ req = NoRequest

\* the record of one call of update
Called(self, vs, now1, now2) ==
    [called |-> TRUE, now1 |-> now1, now2 |-> now2, before |-> self,
     vehicles |-> vs, extend |-> extend_green(self, vs, now1), prev_extend |-> upd.extend]

----------------------------------------------------------------------------
\* The simulation loop

\* one KeyDown event of poll_iter, key k, with r the random draw used by R
PollEvent(k, r) ==
    LET o == key_origin(k, r)
    IN  /\ IF o # "None" /\ can_spawn(vehicles, o)
           THEN /\ vehicles' = Append(vehicles, spawn_vehicle(o))
                /\ spawned' = spawned + 1
           ELSE UNCHANGED <<vehicles, spawned>>
        /\ req' = [made |-> TRUE, origin |-> o, before |-> vehicles,
                   accepted |-> o # "None" /\ can_spawn(vehicles, o)]
        /\ UNCHANGED <<light_controller, clock, frame, pre, moved, checks, kept, upd>>

\* the rest of one loop iteration: controller update, motion loop, cull,
\* render and present.  `skew` seconds pass between the two elapsed() reads of
\* update and `d` seconds over the rest of the frame.
Frame(skew, d) ==
    LET lc == update(light_controller, vehicles, clock, clock + skew)
        r == motion_loop(lc, vehicles, <<>>, 1)
    IN  /\ clock + skew + d <= MaxClock
        /\ upd' = Called(light_controller, vehicles, clock, clock + skew)
        /\ light_controller' = lc
        /\ pre' = vehicles
        /\ moved' = r.vehicles
        /\ checks' = r.checks
        /\ vehicles' = retain(r.vehicles)
        /\ kept' = retain(r.vehicles)
        /\ clock' = clock + skew + d
        /\ frame' = IF spawned > 0 /\ frame < KeyFrames THEN frame + 1 ELSE frame
        /\ req' = NoRequest
        /\ UNCHANGED spawned

\* The key events of a bounded run: the first vehicle may be asked for at any
\* time, later keys arrive within KeyFrames frames of it and ask for the lane
\* already in use (its own key, or R drawing it), until MaxSpawns vehicles
\* have been accepted.
KeyArrives(k, r) ==
    /\ spawned < MaxSpawns
    /\ frame < KeyFrames
    /\ \A i \in DOMAIN vehicles : vehicles[i].origin = key_origin(k, r)
    /\ spawned > 0 => vehicles # <<>>

Next ==
    \/ \E k \in Keycodes, r \in 0..3 : KeyArrives(k, r) /\ PollEvent(k, r)
    \/ \E skew \in {0, ClockStep}, d \in {0, ClockStep} : Frame(skew, d)

Spec == Init /\ [][Next]_vars

----------------------------------------------------------------------------
\* The simulation loop with traffic from both ends of one road

\* two origins are the two ends of one road, or the same end
same_road(o1, o2) == (o1 \in {"North", "South"}) <=> (o2 \in {"North", "South"})

\* The key events of a bounded run on one road: as KeyArrives, or a key for
\* either approach of the road in use within RoadFrames frames of the first
\* spawn.
KeyArrivesRoad(k, r) ==
    /\ spawned < MaxSpawns
    /\ frame < RoadFrames
    /\ key_origin(k, r) \in Origins
    /\ \A i \in DOMAIN vehicles : same_road(vehicles[i].origin, key_origin(k, r))
    /\ spawned > 0 => vehicles # <<>>

NextRoad ==
    \/ \E k \in Keycodes, r \in 0..3 :
            (KeyArrives(k, r) \/ KeyArrivesRoad(k, r)) /\ PollEvent(k, r)
    \/ \E skew \in {0, ClockStep}, d \in {0, ClockStep} :
            clock + skew + d <= RoadMaxClock /\ Frame(skew, d)

SpecRoad == Init /\ [][NextRoad]_vars

----------------------------------------------------------------------------
\* The simulation loop running for ever

\* An Instant is only ever read through elapsed(), so the clock and the timer
\* may be counted from any origin: rebase moves the origin to instant t.
rebase(self, t) == [self EXCEPT !.phase_timer = self.phase_timer - t]

\* Frame, with the clock counted from the last phase change after the frame
FrameLive(skew, d) ==
    LET lc == update(light_controller, vehicles, clock, clock + skew)
        r == motion_loop(lc, vehicles, <<>>, 1)
    IN  /\ clock + skew + d - lc.phase_timer <= MaxAge
        /\ clock' = clock + skew + d - lc.phase_timer
        /\ upd' = Called(light_controller, vehicles, clock, clock + skew)
        /\ light_controller' = rebase(lc, lc.phase_timer)
        /\ pre' = vehicles
        /\ moved' = r.vehicles
        /\ checks' = r.checks
        /\ vehicles' = retain(r.vehicles)
        /\ kept' = retain(r.vehicles)
        /\ frame' = IF spawned > 0 /\ frame < KeyFrames THEN frame + 1 ELSE frame
        /\ req' = NoRequest
        /\ UNCHANGED spawned

\* The key events of an unending run: a key for any origin, while the window
\* is empty.
KeyArrivesLive(k, r) ==
    /\ spawned < LiveSpawns
    /\ key_origin(k, r) \in Origins
    /\ vehicles = <<>>

NextLive ==
    \/ \E k \in Keycodes, r \in 0..3 : KeyArrivesLive(k, r) /\ PollEvent(k, r)
    \/ \E skew \in {0, ClockStep}, d \in {0, ClockStep} : FrameLive(skew, d)

\* the loop keeps iterating and the clock keeps advancing
Fairness == WF_vars(\E skew \in {0, ClockStep} : FrameLive(skew, ClockStep))

SpecLive == Init /\ [][NextLive]_vars /\ Fairness

----------------------------------------------------------------------------
\* LightController driven on its own

\* a vehicle as update reads it: an origin and a stopped flag
CtlVehicle(o, stopped) == [spawn_vehicle(o) EXCEPT !.is_stopped = stopped]

CtlVehicles == {CtlVehicle(o, b) : o \in Origins, b \in BOOLEAN}

CtlLists ==
    UNION {[1..n -> CtlVehicles] : n \in 0..MaxCtlVehicles}

\* time passes between two calls
TimePasses(d) ==
    /\ clock + d <= CtlMaxClock
    /\ clock' = clock + d
    /\ UNCHANGED <<vehicles, light_controller, frame, spawned, pre, moved, checks, kept, upd, req>>

\* light_controller.update(&vs)
CallUpdate(vs, skew) ==
    /\ clock + skew <= CtlMaxClock
    /\ vehicles' = vs
    /\ light_controller' = update(light_controller, vs, clock, clock + skew)
    /\ upd' = Called(light_controller, vs, clock, clock + skew)
    /\ clock' = clock + skew
    /\ UNCHANGED <<frame, spawned, pre, moved, checks, kept, req>>

NextCtl ==
    \/ TimePasses(ClockStep)
    \/ \E vs \in CtlLists, skew \in {0, ClockStep} : CallUpdate(vs, skew)

SpecCtl == Init /\ [][NextCtl]_vars

----------------------------------------------------------------------------
\* Properties

\* the stop band of the East approach, as the claims give it
EastBand(v) == v.origin = "East" /\ v.x + 25 > 175 /\ v.x < 325

\* what iteration i of the motion loop reads for vehicle j: the vehicles
\* before i have been updated, the others not yet
Read(j, i) == IF j < i THEN moved[j] ELSE pre[j]

\* the signed gap from vehicle a to vehicle b along a's direction of travel
GapAhead(a, b) ==
    CASE a.origin = "North" -> b.y - a.y
      [] a.origin = "South" -> a.y - b.y
      [] a.origin = "East" -> b.x - a.x
      [] a.origin = "West" -> a.x - b.x

\* the rectangle of v lies fully outside the 800 x 800 window
FullyOutside(v) ==
    \/ v.x >= 800
    \/ v.x + 25 <= 0
    \/ v.y >= 800
    \/ v.y + 25 <= 0

\* some stopped vehicle of a green origin of phase ph is in the list vs
GreenQueued(ph, vs) ==
    \E i \in DOMAIN vs :
        /\ vs[i].is_stopped
        /\ IF ph = "NorthSouth" THEN vs[i].origin \in {"North", "South"}
                                ELSE vs[i].origin \in {"East", "West"}

\* C1: in every state exactly the two lights of the active phase are Green
\* and the other two are Red.
C1_LightsMatchPhase ==
    LET lc == light_controller
    IN  \/ /\ lc.phase = "NorthSouth"
           /\ lc.n_light = "Green" /\ lc.s_light = "Green"
           /\ lc.e_light = "Red" /\ lc.w_light = "Red"
        \/ /\ lc.phase = "EastWest"
           /\ lc.e_light = "Green" /\ lc.w_light = "Green"
           /\ lc.n_light = "Red" /\ lc.s_light = "Red"

\* C1 witness: an update has flipped the phase back from EastWest to NorthSouth
C1_Witness ==
    /\ upd.called
    /\ upd.before.phase = "EastWest"
    /\ light_controller.phase = "NorthSouth"

\* C2: a vehicle that ends the motion update stopped has the position it had
\* when the update started.
C2_StoppedKeepsPosition ==
    \A i \in DOMAIN moved :
        moved[i].is_stopped => moved[i].x = pre[i].x /\ moved[i].y = pre[i].y

\* C3: a vehicle that ends the motion update not stopped has moved by exactly
\* its velocity vector (vx, vy), velocities being held in tenths.
C3_MovingAddsVelocity ==
    \A i \in DOMAIN moved :
        ~moved[i].is_stopped =>
            /\ 10 * (moved[i].x - pre[i].x) = pre[i].vx
            /\ 10 * (moved[i].y - pre[i].y) = pre[i].vy

\* C4: the car-following test of every vehicle reads the collection as it was
\* when the motion loop started, and the result of the loop for every vehicle
\* is the same whatever the order in which the vehicles are processed.
C4_OrderIndependent ==
    /\ \A i \in DOMAIN pre :
            checks[i].is_stopped_by_car = is_stopped_by_car(pre, i)
    /\ \A p \in Permutations(DOMAIN pre) :
            LET q == [k \in DOMAIN pre |-> pre[p[k]]]
                r == motion_loop(light_controller, q, <<>>, 1).vehicles
            IN  \A k \in DOMAIN pre : r[k] = moved[p[k]]

\* C5: an update that finds the base duration elapsed and a stopped vehicle of
\* a green origin leaves the phase, the lights and the timer as they were, and
\* the next update makes the same check again; one that finds the base
\* duration elapsed and no such vehicle changes the phase.
C5_ExtendKeepsControllerAndRechecks ==
    upd.called =>
        LET before == upd.before
            elapsed == upd.now1 - before.phase_timer
            queued == GreenQueued(before.phase, upd.vehicles)
        IN  /\ elapsed >= 8 /\ queued => light_controller = before
            /\ elapsed >= 8 /\ ~queued => light_controller.phase # before.phase
            /\ upd.prev_extend => elapsed >= 8

\* C5 witness: two updates in a row extended the phase
C5_Witness ==
    /\ upd.called
    /\ upd.prev_extend
    /\ upd.now1 - upd.before.phase_timer >= 8
    /\ GreenQueued(upd.before.phase, upd.vehicles)
    /\ light_controller = upd.before

\* C6: with no stopped vehicle, an update in the NorthSouth phase that finds
\* the base duration elapsed makes the phase EastWest, North/South Red and
\* East/West Green, and sets the timer to the time of the update; and no
\* update changes the phase before a base duration has passed since the timer
\* was last set.
C6_FlipOnceAtBaseDuration ==
    upd.called =>
        LET before == upd.before
            lc == light_controller
            none_stopped == \A i \in DOMAIN upd.vehicles : ~upd.vehicles[i].is_stopped
        IN  /\ ( /\ none_stopped
                 /\ before.phase = "NorthSouth"
                 /\ upd.now1 - before.phase_timer >= 8 )
               => /\ lc.phase = "EastWest"
                  /\ lc.n_light = "Red" /\ lc.s_light = "Red"
                  /\ lc.e_light = "Green" /\ lc.w_light = "Green"
                  /\ lc.phase_timer = upd.now2
            /\ lc.phase # before.phase => upd.now2 - before.phase_timer >= 8
            /\ lc.phase = before.phase => lc = before

\* C6 witness: the first phase change of a run, made with no stopped vehicle
C6_Witness ==
    /\ upd.called
    /\ upd.before = LightController_new(0)
    /\ \A i \in DOMAIN upd.vehicles : ~upd.vehicles[i].is_stopped
    /\ upd.now1 >= 8
    /\ light_controller.phase = "EastWest"

\* C7: an East-origin vehicle inside the stop band while the East light is Red
\* ends the motion update stopped and where it was; if it ends the update
\* moving, the East light is Green.
C7_EastWaitsAtRed ==
    \A i \in DOMAIN pre :
        EastBand(pre[i]) =>
            /\ light_controller.e_light = "Red" =>
                    /\ moved[i].is_stopped
                    /\ moved[i].x = pre[i].x
                    /\ moved[i].y = pre[i].y
            /\ ~moved[i].is_stopped => light_controller.e_light = "Green"

\* C7 witness: an East-origin vehicle already stopped in the band stays
\* stopped through another update under a Red East light
C7_Witness ==
    \E i \in DOMAIN pre :
        /\ EastBand(pre[i])
        /\ pre[i].is_stopped
        /\ light_controller.e_light = "Red"
        /\ light_controller.phase = "NorthSouth"
        /\ moved[i].is_stopped
        /\ moved[i].x = pre[i].x

\* C8: a vehicle whose red-light check is true is not outbound and has not
\* yet entered the intersection box 325..475 from its approach side.
C8_RedStopsOnlyApproaching ==
    \A i \in DOMAIN pre :
        checks[i].is_at_red_light =>
            /\ ~pre[i].is_outbound
            /\ CASE pre[i].origin = "North" -> pre[i].y < 325
                 [] pre[i].origin = "South" -> pre[i].y + 25 > 475
                 [] pre[i].origin = "East" -> pre[i].x < 325
                 [] pre[i].origin = "West" -> pre[i].x + 25 > 475

C10_CullExactlyOutside ==
    /\ \A i \in DOMAIN vehicles : ~FullyOutside(vehicles[i])
    /\ \A i \in DOMAIN moved :
            FullyOutside(moved[i]) <=> ~ \E k \in DOMAIN kept : kept[k] = moved[i]
    /\ Len(kept) = Cardinality({i \in DOMAIN moved : ~FullyOutside(moved[i])})

\* C10 witness: a vehicle left the window in the last motion update and is
\* gone from the collection
C10_Witness ==
    \E i \in DOMAIN moved :
        /\ FullyOutside(moved[i])
        /\ ~FullyOutside(pre[i])
        /\ Len(kept) < Len(moved)

----------------------------------------------------------------------------
\* distance of a vehicle from the edge its origin spawns at, along its travel axis
SpawnEdgeDistance(v) ==
    CASE v.origin = "North" -> v.y
      [] v.origin = "South" -> 800 - (v.y + 25)
      [] v.origin = "East" -> v.x
      [] v.origin = "West" -> 800 - (v.x + 25)

\* some vehicle of origin o in vs is within 45 of o's spawn edge
NearSpawnEdge(vs, o) ==
    \E i \in DOMAIN vs : vs[i].origin = o /\ SpawnEdgeDistance(vs[i]) < 45

\* C11: a spawn request for origin o is rejected, leaving the collection as it
\* was, exactly when a live vehicle of origin o is within 45 of o's spawn edge
\* along its travel axis; otherwise one fresh vehicle of origin o is appended
\* at the spawn edge.  Vehicles of other origins never cause a rejection, and
\* a second request for the same origin with no tick in between is rejected.
C11_SpawnClearance ==
    (req.made /\ req.origin \in Origins) =>
        IF NearSpawnEdge(req.before, req.origin)
        THEN ~req.accepted /\ vehicles = req.before
        ELSE /\ req.accepted
             /\ Len(vehicles) = Len(req.before) + 1
             /\ SubSeq(vehicles, 1, Len(req.before)) = req.before
             /\ vehicles[Len(vehicles)].origin = req.origin
             /\ SpawnEdgeDistance(vehicles[Len(vehicles)]) = 0

\* a request is rejected because a vehicle of its origin spawned in the same
\* poll and has not moved yet
C11_Witness ==
    /\ req.made
    /\ req.origin \in Origins
    /\ ~req.accepted
    /\ vehicles = req.before
    /\ \E i \in DOMAIN req.before :
        /\ req.before[i].origin = req.origin
        /\ SpawnEdgeDistance(req.before[i]) = 0

----------------------------------------------------------------------------
\* the leading edge of v (bottom for North, top for South, right for East,
\* left for West) is past the intersection centre 400
LeadingEdgeCrossed(v) ==
    CASE v.origin = "North" -> v.y + 25 > 400
      [] v.origin = "South" -> v.y < 400
      [] v.origin = "East" -> v.x + 25 > 400
      [] v.origin = "West" -> v.x < 400

\* C12: for every origin, a vehicle that is not yet outbound becomes outbound
\* in exactly the first tick at whose start its leading edge has crossed the
\* intersection centre, and an outbound vehicle stays outbound.
C12_OutboundAtLeadingEdge ==
    \A i \in DOMAIN moved :
        /\ pre[i].is_outbound => moved[i].is_outbound
        /\ ~pre[i].is_outbound => (moved[i].is_outbound <=> LeadingEdgeCrossed(pre[i]))

----------------------------------------------------------------------------
\* the lane offset of a vehicle: its coordinate across its direction of travel
CrossAxis(v) == IF v.origin \in {"North", "South"} THEN v.x ELSE v.y

\* the lane offset the code gives to an (origin, is_outbound) pair
LaneOffset(origin, is_outbound) ==
    CASE origin \in {"North", "South"} -> IF is_outbound THEN 410 ELSE 365
      [] origin = "East" -> IF is_outbound THEN 410 ELSE 365
      [] origin = "West" -> IF is_outbound THEN 365 ELSE 410

\* C13: the cross-axis coordinate of every live vehicle, before and after each
\* tick and each spawn, is the fixed lane offset of its (origin, is_outbound)
\* pair, and a tick never changes a vehicle's origin.
C13_LaneOffsetByOriginAndOutbound ==
    /\ \A i \in DOMAIN vehicles :
        CrossAxis(vehicles[i]) = LaneOffset(vehicles[i].origin, vehicles[i].is_outbound)
    /\ \A i \in DOMAIN moved :
        /\ CrossAxis(moved[i]) = LaneOffset(moved[i].origin, moved[i].is_outbound)
        /\ moved[i].origin = pre[i].origin

\* a West-origin vehicle has just become outbound and changed lane
C13_Witness ==
    \E i \in DOMAIN moved :
        /\ moved[i].origin = "West"
        /\ ~pre[i].is_outbound
        /\ moved[i].is_outbound
        /\ CrossAxis(pre[i]) = 410
        /\ CrossAxis(moved[i]) = 365

----------------------------------------------------------------------------
\* C14: an update called while less than the base duration has passed since
\* the timer was last set, up to the last reading of the clock the call makes,
\* leaves the phase, the four lights and the timer as they were, whatever the
\* vehicle list it is given.
C14_NoChangeBeforeBaseDuration ==
    (upd.called /\ upd.now2 - upd.before.phase_timer < 8) =>
        /\ light_controller.phase = upd.before.phase
        /\ light_controller.n_light = upd.before.n_light
        /\ light_controller.s_light = upd.before.s_light
        /\ light_controller.e_light = upd.before.e_light
        /\ light_controller.w_light = upd.before.w_light
        /\ light_controller.phase_timer = upd.before.phase_timer

\* an update called part way through a phase, after a phase change, with a
\* list that holds no stopped vehicle of a green origin, changed nothing
C14_Witness ==
    /\ upd.called
    /\ upd.before.phase = "EastWest"
    /\ upd.now1 - upd.before.phase_timer > 0
    /\ upd.now2 - upd.before.phase_timer < 8
    /\ ~GreenQueued(upd.before.phase, upd.vehicles)
    /\ upd.vehicles # <<>>
    /\ light_controller = upd.before

\* the stopped vehicles of the green origins of phase ph in vs, in list order
StoppedGreen(ph, vs) ==
    LET counted(v) == v.is_stopped /\ v.origin \in (IF ph = "NorthSouth"
                                                    THEN {"North", "South"}
                                                    ELSE {"East", "West"})
    IN  SelectSeq(vs, counted)

\* C15: once the base duration has elapsed, what an update does is a function
\* of the stopped vehicles of the two green origins alone: any list with the
\* same stopped green-origin vehicles gives the same controller, and a list
\* with none of them gives a phase change, whatever stopped red-origin
\* vehicles and moving vehicles it holds.
C15_DecisionReadsStoppedGreenOnly ==
    (upd.called /\ upd.now1 - upd.before.phase_timer >= 8) =>
        /\ \A vs \in CtlLists :
            StoppedGreen(upd.before.phase, vs) = StoppedGreen(upd.before.phase, upd.vehicles)
                => update(upd.before, vs, upd.now1, upd.now2) = light_controller
        /\ StoppedGreen(upd.before.phase, upd.vehicles) = <<>>
                => light_controller.phase # upd.before.phase

\* the base duration has elapsed and the list holds a stopped vehicle of a
\* red origin and a moving vehicle of a green origin: the phase changes
C15_Witness ==
    /\ upd.called
    /\ upd.now1 - upd.before.phase_timer >= 8
    /\ upd.before.phase = "NorthSouth"
    /\ \E i \in DOMAIN upd.vehicles :
        upd.vehicles[i].origin = "East" /\ upd.vehicles[i].is_stopped
    /\ \E i \in DOMAIN upd.vehicles :
        upd.vehicles[i].origin = "North" /\ ~upd.vehicles[i].is_stopped
    /\ light_controller.phase = "EastWest"

----------------------------------------------------------------------------
\* C16: in the simulation loop, at the end of every tick every live vehicle
\* whose origin has the Green light is not stopped, so no update ever finds a
\* congested green lane: the extension is never taken and a phase changes at
\* the first update that finds the base duration elapsed.
C16_GreenNeverStoppedNoExtension ==
    /\ \A i \in DOMAIN moved :
        get_light_state_for(light_controller, moved[i].origin) = "Green"
            => ~moved[i].is_stopped
    /\ \A i \in DOMAIN vehicles :
        get_light_state_for(light_controller, vehicles[i].origin) = "Green"
            => ~vehicles[i].is_stopped
    /\ ~upd.extend
    /\ (upd.called /\ upd.now1 - upd.before.phase_timer >= 8)
            => light_controller.phase # upd.before.phase

\* two vehicles of one origin that were both stopped move off in the tick in
\* which their light turns Green
C16_Witness ==
    /\ upd.called
    /\ light_controller.phase # upd.before.phase
    /\ Len(moved) = 2
    /\ moved[1].origin = moved[2].origin
    /\ get_light_state_for(light_controller, moved[1].origin) = "Green"
    /\ pre[1].is_stopped /\ pre[2].is_stopped
    /\ ~moved[1].is_stopped /\ ~moved[2].is_stopped

----------------------------------------------------------------------------
\* how far v has travelled from the edge it spawned at
Travelled(v) == SpawnEdgeDistance(v)

\* C17: two live vehicles of the same origin never overlap: the one spawned
\* earlier is ahead of the one spawned later by at least the vehicle length 25
\* along the travel axis, in every state and after every motion update.
C17_SameOriginNeverOverlap ==
    /\ \A i, j \in DOMAIN vehicles :
        (i < j /\ vehicles[i].origin = vehicles[j].origin)
            => Travelled(vehicles[i]) - Travelled(vehicles[j]) >= 25
    /\ \A i, j \in DOMAIN moved :
        (i < j /\ moved[i].origin = moved[j].origin)
            => Travelled(moved[i]) - Travelled(moved[j]) >= 25

\* a follower has closed up behind a leader waiting at its Red light and has
\* stopped short of it
C17_Witness ==
    /\ Len(moved) = 2
    /\ moved[1].origin = moved[2].origin
    /\ moved[1].is_stopped /\ moved[2].is_stopped
    /\ checks[2].is_stopped_by_car
    /\ Travelled(moved[1]) - Travelled(moved[2]) < 45
    /\ Travelled(moved[1]) - Travelled(moved[2]) >= 25

----------------------------------------------------------------------------
\* the 25 x 25 rectangles of a and b intersect
Overlap(a, b) ==
    /\ a.x < b.x + 25 /\ b.x < a.x + 25
    /\ a.y < b.y + 25 /\ b.y < a.y + 25

\* the rectangle of v lies within the intersection box 325..475 x 325..475
InsideBox(v) ==
    /\ v.x >= 325 /\ v.x + 25 <= 475
    /\ v.y >= 325 /\ v.y + 25 <= 475

\* C18: no two live vehicles of different origins have overlapping
\* rectangles; in particular vehicles from the two ends of one road never
\* occupy the same lane position, and no vehicle stands still inside the
\* intersection box while the perpendicular pair has the Green light.
C18_NoCrossOriginCollision ==
    /\ \A i, j \in DOMAIN vehicles :
        vehicles[i].origin # vehicles[j].origin => ~Overlap(vehicles[i], vehicles[j])
    /\ \A i \in DOMAIN moved :
        (moved[i].is_stopped /\ InsideBox(moved[i]))
            => get_light_state_for(light_controller, moved[i].origin) = "Green"

----------------------------------------------------------------------------
====
